---- MODULE Spec2Model ----
(***************************************************************************)
(* ofcli: resolution of OpenID Federation trust chains.                    *)
(*                                                                         *)
(* The module models get_trustchains (core.py), TrustChainResolver,        *)
(* TrustTree and TrustChain (trustchain.py) on top of a federation whose   *)
(* endpoints answer the requests of utils.py.  Entity identifiers are the  *)
(* numbers 1..NumEntities (normalised URLs); entity 1 is the starting      *)
(* entity.  The federation is a fixed mapping from requests to responses;  *)
(* a response is drawn when the request is first issued and is repeated    *)
(* on every later request for the same URL.                                *)
(***************************************************************************)
EXTENDS Integers, Sequences, FiniteSets, TLC

\* ------------------------------------------------------------------ bounds
\* size of the federation: its authority hints plus its responses that
\* deviate from a plain, well-formed federation
MaxSize == 4
\* a federation with MaxSize hints names at most MaxSize entities besides the
\* starting one, and no authority_hints list is longer than MaxSize
NumEntities == MaxSize + 1
MaxHints == MaxSize
\* recursion depth of TrustTree.resolve explored (the code has no limit)
MaxDepth == NumEntities + 1

Entities == 1..NumEntities
StartingEntity == 1
\* constraints.max_path_length values that can exclude a chain of the federation
MplValues == 0..(MaxSize - 2)
\* sub / max_path_length / exp absent from a payload
NoSub == 0
NoMpl == -1

VARIABLES
    status,     \* "start" | "running" | "done" | "raised" | "resolved" |
                \* "discover_ops": position of the operation
    anchors,    \* trust_anchors of the call
    cfg,        \* entity id -> response of {id}/.well-known/openid-federation
    stmts,      \* the responses drawn for the fetch endpoints (url: issuer, about: sub=)
    devs,       \* deviating responses so far
    nodes,      \* the TrustTree objects created, in creation order; 1 is the root
    stack,      \* the active calls of TrustTree.resolve, innermost last
    ret,        \* "none" | "true" | "false": value just returned by TrustTree.resolve
    seen,       \* the list `seen` of TrustTree.resolve
    fetches,    \* log of the requests issued
    result,     \* the list returned by TrustChainResolver.chains
    op,         \* the operation of core.py that runs the resolver
    error,      \* the exception that left the operation, "" if none
    out,        \* resolve_entity: the chain whose metadata is returned;
                \* discover: the trust anchors handed to discover_ops
    expChain,   \* TrustChain.__init__: the exp claims of the chain being reduced
    expPos,     \* TrustChain.__init__: statements already folded
    expAcc,     \* TrustChain.__init__: accumulator of the reduce
    tcfg,       \* subtree: entity id -> response of its well-known URL
    tlists,     \* subtree: entity id -> response of its list endpoint
    tdevs,      \* subtree: deviating responses so far
    tnodes,     \* subtree: the FedTree objects created; 1 is the root
    tstack,     \* subtree: the active calls of FedTree.discover
    tout,       \* subtree: the serialized tree returned
    input,      \* the arguments of the function applied (function specifications)
    output,     \* its result, "pending" before the call
    prev        \* the outcome of the earlier invocation in the same process,
                \* <<>> during the first one

vars == <<status, anchors, cfg, stmts, devs, nodes, stack, ret, seen, fetches,
          result, op, error, out, expChain, expPos, expAcc,
          tcfg, tlists, tdevs, tnodes, tstack, tout, input, output, prev>>
resolverVars == <<status, anchors, cfg, stmts, devs, nodes, stack, ret, seen,
                  fetches, result, op, error, out>>
expVars == <<expChain, expPos, expAcc>>
treeVars == <<tcfg, tlists, tdevs, tnodes, tstack, tout>>
funVars == <<input, output>>
procVars == <<prev>>

\* ------------------------------------------------------------ statements
\* A decoded entity statement together with the request that returned it
\* (url: the entity asked; about: the sub= query, NoSub for a configuration).
\* st is "unknown" while the request was never issued, "fail" when the fetch
\* or the decoding of the JWS fails, "none" for Python's None.
\* ep: metadata.federation_entity.federation_fetch_endpoint is present;
\* rp: metadata.openid_relying_party is present and not empty;
\* pol: metadata_policy.openid_relying_party for one parameter the subject's
\* metadata does not set: "none", {value: 1}, {value: 2} or {essential: true}.
Blank(st) ==
    [st |-> st, iss |-> NoSub, sub |-> NoSub, hints |-> <<>>, ep |-> FALSE,
     mpl |-> NoMpl, sig |-> TRUE, rp |-> FALSE, pol |-> "none",
     url |-> NoSub, about |-> NoSub]

PlainCfg(e, h) ==
    [st |-> "ok", iss |-> e, sub |-> e, hints |-> h, ep |-> TRUE,
     mpl |-> NoMpl, sig |-> TRUE, rp |-> TRUE, pol |-> "none",
     url |-> e, about |-> NoSub]

PlainStmt(a, s) ==
    [st |-> "ok", iss |-> a, sub |-> s, hints |-> <<>>, ep |-> FALSE,
     mpl |-> NoMpl, sig |-> TRUE, rp |-> FALSE, pol |-> "none",
     url |-> a, about |-> s]

Range(f) == {f[i] : i \in DOMAIN f}

Min(S) == CHOOSE x \in S : \A y \in S : x <= y

\* Entities named so far by the call or by a response.
Mentioned ==
    {StartingEntity} \cup anchors
      \cup {e \in Entities : cfg[e].st # "unknown"}
      \cup UNION {Range(cfg[e].hints) : e \in Entities}
      \cup ({cfg[e].sub : e \in Entities} \ {NoSub})

RECURSIVE HintLists(_, _)
\* The authority_hints lists of at most n entries.  Entity ids are
\* interchangeable: an entry names an entity already known or the smallest id
\* not yet known.
HintLists(known, n) ==
    IF n = 0 THEN {<<>>}
    ELSE LET fresh == IF Entities \ known = {} THEN {} ELSE {Min(Entities \ known)}
         IN  {<<>>} \cup UNION {{<<x>> \o t : t \in HintLists(known \cup {x}, n - 1)} :
                                x \in known \cup fresh}

RECURSIVE EdgeCount(_)
EdgeCount(n) == IF n = 0 THEN 0 ELSE Len(cfg[n].hints) + EdgeCount(n - 1)

\* What MaxSize leaves for further hints and deviations.
Budget == MaxSize - (EdgeCount(NumEntities) + devs)

\* The responses {e}/.well-known/openid-federation may give, as far as the
\* resolver reads them (the fetch, sub, authority_hints, the fetch endpoint).
CfgResponses(e) ==
    LET known == Mentioned \cup {e}
        fresh == IF Entities \ known = {} THEN {} ELSE {Min(Entities \ known)}
        plain(n) == {PlainCfg(e, h) : h \in HintLists(known, n)}
        deviating ==
            {Blank("fail")}
              \cup {[p EXCEPT !.sub = s] : p \in plain(Budget - 1),
                                           s \in (known \cup fresh \cup {NoSub}) \ {e}}
              \cup {[p EXCEPT !.ep = FALSE] : p \in plain(Budget - 1)}
    IN  plain(IF Budget < MaxHints THEN Budget ELSE MaxHints)
          \cup (IF Budget >= 1 THEN deviating ELSE {})

\* The responses the fetch endpoint of a may give for sub=s, as far as the
\* resolver reads them (the fetch and the decoding).
StmtResponses(a, s) ==
    {PlainStmt(a, s)}
      \cup (IF Budget >= 1 THEN {[Blank("fail") EXCEPT !.url = a, !.about = s]} ELSE {})

\* The response drawn for the fetch endpoint of a and sub=s, if any.
StmtOf(a, s) ==
    IF \E r \in stmts : r.url = a /\ r.about = s
    THEN CHOOSE r \in stmts : r.url = a /\ r.about = s
    ELSE Blank("unknown")

\* The metadata policies a subordinate statement may carry.
Policies == {"value1", "value2", "essential"}

\* An entity id other than x, for a statement that names the wrong entity.
OtherThan(x) == (x % NumEntities) + 1

\* What the resolver never reads of a response (iss, constraints, the
\* signature, a subordinate statement's sub) is drawn when the statement is
\* returned in a chain: the deviating forms of the plain response r.
OutputVariants(r) ==
    IF r.about = NoSub
    THEN {[r EXCEPT !.iss = OtherThan(r.url)]}
           \cup {[r EXCEPT !.mpl = k] : k \in MplValues}
           \cup (IF r.url = StartingEntity /\ op = "chains"
                 THEN {[r EXCEPT !.rp = FALSE]} ELSE {})
    ELSE {[r EXCEPT !.iss = OtherThan(r.url)],
          [r EXCEPT !.sub = OtherThan(r.about)],
          [r EXCEPT !.sig = FALSE]}
           \cup {[r EXCEPT !.pol = q] : q \in Policies}

IsPlain(r) ==
    \/ r.st = "unknown"
    \/ r.about = NoSub /\ r = PlainCfg(r.url, r.hints)
    \/ r.about # NoSub /\ r = PlainStmt(r.url, r.about)

Cost(r) == IF IsPlain(r) THEN 0 ELSE 1

Fetch(kind, url, about) == [kind |-> kind, url |-> url, about |-> about]

\* ------------------------------------------------------------ trust tree
TrustTree(entity, subordinate) ==
    [entity |-> entity, subordinate |-> subordinate, authorities |-> <<>>]

Frame(n) ==
    [node |-> n, i |-> 1, valid |-> FALSE, step |-> "enter", child |-> 0]

Top == stack[Len(stack)]
Pop == SubSeq(stack, 1, Len(stack) - 1)
SetTop(f) == [stack EXCEPT ![Len(stack)] = f]
Bool(b) == IF b THEN "true" ELSE "false"

\* The variables of the subtree walk and of the function specifications
\* while another operation runs.
TreeUnused ==
    /\ tcfg = <<>>
    /\ tlists = <<>>
    /\ tdevs = 0
    /\ tnodes = <<>>
    /\ tstack = <<>>
    /\ tout = <<>>

FunUnused == input = <<>> /\ output = "pending"

AnchorSets == {{}, {StartingEntity}, {NumEntities}, {NumEntities - 1, NumEntities}}

Init ==
    /\ status = "start"
    /\ anchors \in AnchorSets
    /\ cfg = [e \in Entities |-> Blank("unknown")]
    /\ stmts = {}
    /\ devs = 0
    /\ nodes = <<>>
    /\ stack = <<>>
    /\ ret = "none"
    /\ seen = <<>>
    /\ fetches = <<>>
    /\ result = <<>>
    /\ op \in (IF anchors = {} THEN {"chains", "discover"} ELSE {"chains"})
    /\ error = ""
    /\ out = <<>>
    /\ expChain = <<>>
    /\ expPos = 0
    /\ expAcc = 0
    /\ TreeUnused
    /\ FunUnused
    /\ prev = <<>>

\* discover, lines 126-129: get_entity_metadata fetches the entity's
\* configuration; an entity without openid_relying_party metadata is refused.
DiscoverStart ==
    /\ status = "start"
    /\ op = "discover"
    /\ LET plain == {r \in CfgResponses(StartingEntity) : r.st = "ok" /\ IsPlain(r)}
           notRP == {[r EXCEPT !.rp = FALSE] : r \in {x \in plain : Len(x.hints) < Budget}}
       IN  \E r \in CfgResponses(StartingEntity) \cup notRP :
            /\ cfg' = [cfg EXCEPT ![StartingEntity] = r]
            /\ devs' = devs + Cost(r)
            /\ fetches' = Append(fetches, Fetch("cfg", StartingEntity, NoSub))
            /\ IF r.st = "fail"
               THEN status' = "raised" /\ error' = "fetch"
               ELSE IF ~r.rp
               THEN status' = "raised" /\ error' = "not_rp"
               ELSE status' = "checked" /\ error' = error
    /\ UNCHANGED <<anchors, stmts, nodes, stack, ret, seen, result, op, out, expVars, treeVars, funVars, procVars>>

\* TrustChainResolver.resolve: fetch the starting entity's configuration and
\* create the root of the trust tree; a failing fetch propagates to the caller.
ResolverResolve ==
    /\ status = (IF op = "discover" THEN "checked" ELSE "start")
    /\ \E r \in (IF cfg[StartingEntity].st = "unknown"
                 THEN CfgResponses(StartingEntity) ELSE {cfg[StartingEntity]}) :
        /\ cfg' = [cfg EXCEPT ![StartingEntity] = r]
        /\ devs' = devs + (IF cfg[StartingEntity].st = "unknown" THEN Cost(r) ELSE 0)
        /\ fetches' = Append(fetches, Fetch("cfg", StartingEntity, NoSub))
        /\ IF r.st = "fail"
           THEN /\ status' = "raised"
                /\ UNCHANGED <<nodes, stack>>
           ELSE /\ status' = "running"
                /\ nodes' = <<TrustTree(r, Blank("none"))>>
                /\ stack' = <<Frame(1)>>
    /\ error' = IF cfg'[StartingEntity].st = "fail" THEN "fetch" ELSE error
    /\ UNCHANGED <<anchors, stmts, ret, seen, result, op, out, expVars, treeVars, funVars, procVars>>

\* A resolve that accepts every node without authority_hints as terminal.
NoHintsResultAlways(anc) == TRUE

\* TrustTree.resolve, lines 136-142: a node without authority_hints is
\* terminal only when no trust anchor was given.
NoHintsResult(anc) == anc = {}

\* A loop that asks the first authority for its statement without fetching
\* the authority's configuration.
EnterLoopUnfetched(f) == [f EXCEPT !.step = "fetch_stmt"]

\* TrustTree.resolve, lines 143-149: the loop over the hints starts with the
\* fetch of the authority's self-signed configuration.
EnterLoop(f) == [f EXCEPT !.step = "fetch_cfg"]

\* TrustTree.resolve up to the loop over the authority hints: record the
\* subject in `seen`, return at a trust anchor or at an entity without hints.
Enter ==
    /\ status = "running"
    /\ ret = "none"
    /\ stack # <<>>
    /\ Top.step = "enter"
    /\ LET entity == nodes[Top.node].entity
           sub == entity.sub
       IN  IF sub = NoSub
           THEN /\ status' = "raised"
                /\ stack' = <<>>
                /\ UNCHANGED <<ret, seen>>
           ELSE /\ seen' = Append(seen, sub)
                /\ status' = status
                /\ IF sub \in anchors
                   THEN ret' = "true" /\ stack' = Pop
                   ELSE IF Len(entity.hints) = 0
                   THEN ret' = Bool(NoHintsResult(anchors)) /\ stack' = Pop
                   ELSE ret' = ret /\ stack' = SetTop(EnterLoop(Top))
    /\ error' = IF nodes[Top.node].entity.sub = NoSub THEN "no_sub" ELSE error
    /\ UNCHANGED <<anchors, cfg, stmts, devs, nodes, fetches, result, op, out, expVars, treeVars, funVars, procVars>>

\* TrustTree.resolve, lines 144-149: EntityStatementPlus.fetch of the next
\* authority hint.  The call is outside the try block: a failure propagates
\* through every enclosing resolve to the caller of get_trustchains.
FetchAuthority ==
    /\ status = "running"
    /\ ret = "none"
    /\ stack # <<>>
    /\ Top.step = "fetch_cfg"
    /\ Top.i <= Len(nodes[Top.node].entity.hints)
    /\ LET a == nodes[Top.node].entity.hints[Top.i]
       IN  \E r \in (IF cfg[a].st = "unknown" THEN CfgResponses(a) ELSE {cfg[a]}) :
            /\ cfg' = [cfg EXCEPT ![a] = r]
            /\ devs' = devs + (IF cfg[a].st = "unknown" THEN Cost(r) ELSE 0)
            /\ fetches' = Append(fetches, Fetch("cfg", a, NoSub))
            /\ IF r.st = "fail"
               THEN status' = "raised" /\ stack' = <<>>
               ELSE /\ status' = status
                    /\ stack' = SetTop([Top EXCEPT !.step = "fetch_stmt"])
    /\ error' = IF status' = "raised" THEN "fetch" ELSE error
    /\ UNCHANGED <<anchors, stmts, nodes, ret, seen, result, op, out, expVars, treeVars, funVars, procVars>>

\* utils.fetch_entity_statement: the issuer's configuration is fetched again
\* to find metadata.federation_entity.federation_fetch_endpoint, then the
\* endpoint is asked for sub.  TRUE iff the endpoint can be located.
HasFetchEndpoint(issuerCfg) == issuerCfg.st = "ok" /\ issuerCfg.ep

\* TrustTree.resolve, lines 150-164: fetch the subordinate statement about
\* this node from the authority; any exception returns False from resolve at
\* once.  Otherwise create the child TrustTree and call its resolve.
FetchSubordinate ==
    /\ status = "running"
    /\ ret = "none"
    /\ stack # <<>>
    /\ Top.step = "fetch_stmt"
    /\ Len(stack) < MaxDepth
    /\ LET a == nodes[Top.node].entity.hints[Top.i]
           sub == nodes[Top.node].entity.sub
           refetch == Append(fetches, Fetch("recfg", a, NoSub))
       IN  IF ~HasFetchEndpoint(cfg[a])
           THEN /\ fetches' = refetch
                /\ ret' = "false"
                /\ stack' = Pop
                /\ UNCHANGED <<stmts, devs, nodes>>
           ELSE \E r \in (IF StmtOf(a, sub).st = "unknown"
                          THEN StmtResponses(a, sub) ELSE {StmtOf(a, sub)}) :
                /\ stmts' = stmts \cup {r}
                /\ devs' = devs + (IF StmtOf(a, sub).st = "unknown" THEN Cost(r) ELSE 0)
                /\ fetches' = Append(refetch, Fetch("stmt", a, sub))
                /\ IF r.st = "fail"
                   THEN /\ ret' = "false"
                        /\ stack' = Pop
                        /\ nodes' = nodes
                   ELSE /\ ret' = ret
                        /\ nodes' = Append(nodes, TrustTree(cfg[a], r))
                        /\ stack' = Append(SetTop([Top EXCEPT !.step = "await",
                                                              !.child = Len(nodes) + 1]),
                                           Frame(Len(nodes) + 1))
    /\ UNCHANGED <<status, anchors, cfg, seen, result, op, error, out, expVars, treeVars, funVars, procVars>>

\* TrustTree.resolve, lines 164-166: the child's resolve has returned; a
\* valid child is appended to self.authorities; go on with the next hint.
AfterChild ==
    /\ status = "running"
    /\ ret # "none"
    /\ stack # <<>>
    /\ Top.step = "await"
    /\ nodes' = IF ret = "true"
                THEN [nodes EXCEPT ![Top.node].authorities = Append(@, Top.child)]
                ELSE nodes
    /\ stack' = SetTop([Top EXCEPT !.step = "fetch_cfg", !.i = @ + 1,
                                   !.valid = (@ \/ ret = "true")])
    /\ ret' = "none"
    /\ UNCHANGED <<status, anchors, cfg, stmts, devs, seen, fetches, result, op, error, out, expVars, treeVars, funVars, procVars>>

\* TrustTree.resolve, line 167: every hint was tried.
ReturnValid ==
    /\ status = "running"
    /\ ret = "none"
    /\ stack # <<>>
    /\ Top.step = "fetch_cfg"
    /\ Top.i > Len(nodes[Top.node].entity.hints)
    /\ ret' = Bool(Top.valid)
    /\ stack' = Pop
    /\ UNCHANGED <<status, anchors, cfg, stmts, devs, nodes, seen, fetches, result, op, error, out, expVars, treeVars, funVars, procVars>>

\* A chains() that keeps only the chain prepended last.
PrependChainDropping(chain, chains) == <<chain>>

\* TrustTree.chains, line 190.
PrependChain(chain, chains) == <<chain>> \o chains

RECURSIVE PrependEach(_, _, _)
\* TrustTree.chains, lines 188-190: the inner loop over one authority's chains.
PrependEach(subordinate, cs, chains) ==
    IF cs = <<>> THEN chains
    ELSE PrependEach(subordinate, Tail(cs),
                     PrependChain(<<subordinate>> \o Head(cs), chains))

RECURSIVE TreeChains(_, _)
RECURSIVE AuthorityChains(_, _, _, _)
\* TrustTree.chains, lines 184-190: the loop over self.authorities.
AuthorityChains(ns, n, j, chains) ==
    IF j > Len(ns[n].authorities) THEN chains
    ELSE LET cs == TreeChains(ns, ns[n].authorities[j])
         IN  AuthorityChains(ns, n, j + 1,
                 IF ns[n].subordinate.st = "none"
                 THEN chains \o cs
                 ELSE PrependEach(ns[n].subordinate, cs, chains))

\* A chains() in which a node without authorities is a chain of its own.
TreeChainsWithSelf(ns, n) ==
    IF Len(ns[n].authorities) = 0
    THEN << <<ns[n].entity>> >>
    ELSE AuthorityChains(ns, n, 1, <<>>)

\* TrustTree.chains.
TreeChains(ns, n) ==
    IF Len(ns[n].authorities) = 0
    THEN IF ns[n].subordinate.st = "none"
         THEN <<>>
         ELSE << <<ns[n].subordinate, ns[n].entity>> >>
    ELSE AuthorityChains(ns, n, 1, <<>>)

\* A chains() that does not put the root's configuration in front.
ResolverChainsOfBare(ns) == TreeChains(ns, 1)

\* TrustChainResolver.chains: every chain of the tree, the root's entity first.
ResolverChainsOf(ns) ==
    LET cs == TreeChains(ns, 1)
    IN  [k \in 1..Len(cs) |-> <<ns[1].entity>> \o cs[k]]

\* TrustChain.__str__: the issuers of every link but the last.
TrustChainStr(chain) == [k \in 1..(Len(chain) - 1) |-> chain[k].iss]

RECURSIVE Overrides(_, _)
\* The sets of deviating forms of at most k distinct responses of T.
Overrides(T, k) ==
    IF k = 0 \/ T = {} THEN {{}}
    ELSE LET t == CHOOSE x \in T : TRUE
         IN  Overrides(T \ {t}, k)
               \cup {S \cup {v} : S \in Overrides(T \ {t}, k - 1), v \in OutputVariants(t)}

\* The response r as the federation of S gives it.
Refresh(r, S) ==
    IF \E v \in S : v.url = r.url /\ v.about = r.about
    THEN CHOOSE v \in S : v.url = r.url /\ v.about = r.about
    ELSE r

\* ofcli.policy, combination of one parameter's policy with the policy q of
\* the next statement: value must match a prior value, essential is or-ed.
CombinePolicy(P, q) ==
    IF q = "none" THEN P
    ELSE IF q = "essential" THEN [P EXCEPT !.essential = TRUE]
    ELSE LET v == IF q = "value1" THEN 1 ELSE 2
         IN  IF P.value \notin {0, v}
             THEN [P EXCEPT !.conflict = TRUE]
             ELSE [P EXCEPT !.value = v]

RECURSIVE GatherFrom(_, _, _)
GatherFrom(chain, i, P) ==
    IF i = 0 THEN P ELSE GatherFrom(chain, i - 1, CombinePolicy(P, chain[i].pol))

\* ofcli.policy.gather_policies(chain, entity_type): the policies of the
\* chain folded from the trust anchor down to the leaf.
GatherPolicies(chain) ==
    GatherFrom(chain, Len(chain), [value |-> 0, essential |-> FALSE, conflict |-> FALSE])

\* ofcli.policy.apply_policy(metadata, policy) on metadata that does not set
\* the parameter: TRUE iff the policy is violated (essential, and no value).
ApplyPolicyFails(P) == P.value = 0 /\ P.essential

\* TrustChain.__init__, lines 38-49: for every entity type of the leaf's
\* metadata the policies are gathered and applied; TRUE iff that raises.
TrustChainRaises(chain) ==
    /\ chain[1].rp
    /\ LET P == GatherPolicies(chain)
       IN  P.conflict \/ ApplyPolicyFails(P)

\* get_trustchains after resolver.resolve(): the value returned by the root's
\* resolve is dropped and the chains are read off the tree, each wrapped in a
\* TrustChain.  The parts of the returned statements that nothing has read so
\* far are drawn here.
ResolverChains ==
    /\ status = "running"
    /\ ret # "none"
    /\ stack = <<>>
    /\ LET base == ResolverChainsOf(nodes)
           emitted == {r \in UNION {Range(base[k]) : k \in 1..Len(base)} : IsPlain(r)}
       IN  \E S \in Overrides(emitted, Budget) :
            /\ cfg' = [e \in Entities |-> Refresh(cfg[e], S)]
            /\ stmts' = {Refresh(r, S) : r \in stmts}
            /\ nodes' = [n \in 1..Len(nodes) |->
                            [nodes[n] EXCEPT !.entity = Refresh(@, S),
                                             !.subordinate = Refresh(@, S)]]
            /\ devs' = devs + Cardinality(S)
            /\ LET chains == [k \in 1..Len(base) |->
                                [i \in 1..Len(base[k]) |-> Refresh(base[k][i], S)]]
               IN  IF \E k \in 1..Len(chains) : TrustChainRaises(chains[k])
                   THEN status' = "raised" /\ error' = "policy" /\ result' = <<>>
                   ELSE status' = "done" /\ error' = error /\ result' = chains
    /\ UNCHANGED <<anchors, stack, ret, seen, fetches, op, out, expVars, treeVars, funVars, procVars>>

EntityTypes == {"openid_relying_party", "openid_provider"}

\* resolve_entity, lines 188-193, after resolver.resolve() and chains() with
\* the one trust anchor given: no chain is an error, otherwise the metadata
\* of the first chain of the list is returned (get_metadata raises when the
\* leaf has no metadata of the type asked for).
ResolveEntity ==
    /\ status = "done"
    /\ op = "chains"
    /\ Cardinality(anchors) = 1
    /\ \E entity_type \in EntityTypes :
        IF Len(result) = 0
        THEN status' = "raised" /\ error' = "no_chain" /\ out' = out
        ELSE /\ out' = result[1]
             /\ IF result[1][1].rp /\ entity_type = "openid_relying_party"
                THEN status' = "resolved" /\ error' = error
                ELSE status' = "raised" /\ error' = "no_metadata"
    /\ UNCHANGED <<anchors, cfg, stmts, devs, nodes, stack, ret, seen, fetches,
                   result, op, expVars, treeVars, funVars, procVars>>

\* discover, lines 131-149, without trust anchors given: the anchors are the
\* ends of the chains found, no chain is an error; the walk that
\* fedtree.discover_ops then starts at every anchor is FedTree.discover.
DiscoverAnchors ==
    /\ status = "done"
    /\ op = "discover"
    /\ IF Len(result) = 0
       THEN status' = "raised" /\ error' = "no_anchors" /\ out' = out
       ELSE /\ status' = "discover_ops"
            /\ error' = error
            /\ out' = {result[k][Len(result[k])].sub : k \in 1..Len(result)}
    /\ UNCHANGED <<anchors, cfg, stmts, devs, nodes, stack, ret, seen, fetches,
                   result, op, expVars, treeVars, funVars, procVars>>

Next ==
    \/ DiscoverStart
    \/ ResolverResolve
    \/ Enter
    \/ FetchAuthority
    \/ FetchSubordinate
    \/ AfterChild
    \/ ReturnValid
    \/ ResolverChains
    \/ ResolveEntity
    \/ DiscoverAnchors

Spec == Init /\ [][Next]_vars

\* ----------------------------------------- two invocations in one process
\* What is kept of an invocation that has ended.
Outcome(permuted) ==
    [status |-> status, result |-> result, seen |-> seen, devs |-> devs,
     permuted |-> permuted]

\* get_trustchains for the starting entity, in a process that runs it twice.
InitProc == Init /\ op = "chains"

\* The state a new TrustChainResolver starts from.  The list `seen` is the
\* default value of the parameter of TrustTree.resolve (line 111):
\* TrustChainResolver.resolve passes no `seen`, so every resolution appends to
\* the one list object the function definition created.
NewResolver(permuted) ==
    /\ status \in {"done", "raised"}
    /\ prev = <<>>
    /\ prev' = <<Outcome(permuted)>>
    /\ status' = "start"
    /\ nodes' = <<>>
    /\ stack' = <<>>
    /\ ret' = "none"
    /\ fetches' = <<>>
    /\ result' = <<>>
    /\ error' = ""
    /\ seen' = seen

\* get_trustchains is called again with the same arguments; the endpoints
\* answer as before.
SecondInvocation ==
    /\ NewResolver(FALSE)
    /\ UNCHANGED <<anchors, cfg, stmts, devs, op, out, expVars, treeVars, funVars>>

\* The list l with its entries i and j exchanged.
Swap(l, i, j) == [l EXCEPT ![i] = l[j], ![j] = l[i]]

\* get_trustchains is called again after one entity has reordered its
\* authority_hints; every endpoint answers as before otherwise.
PermutedInvocation ==
    /\ NewResolver(TRUE)
    /\ \E e \in Entities :
        \E i, j \in 1..Len(cfg[e].hints) :
            /\ i < j
            /\ cfg[e].hints[i] # cfg[e].hints[j]
            /\ cfg' = [cfg EXCEPT ![e].hints = Swap(@, i, j)]
    /\ UNCHANGED <<anchors, stmts, devs, op, out, expVars, treeVars, funVars>>

NextProc ==
    \/ ResolverResolve
    \/ Enter
    \/ FetchAuthority
    \/ FetchSubordinate
    \/ AfterChild
    \/ ReturnValid
    \/ ResolverChains
    \/ SecondInvocation
    \/ PermutedInvocation

SpecProc == InitProc /\ [][NextProc]_vars

\* ------------------------------------------------- TrustChain expiration
\* exp values a statement of a chain may carry
MaxExp == 2
\* statements of a chain handed to TrustChain
MaxChainLen == 3

\* A statement as TrustChain.__init__ reads it: the exp claim, or none.
ExpStatements ==
    {[has |-> FALSE, exp |-> 0]} \cup {[has |-> TRUE, exp |-> v] : v \in (0 - MaxExp)..MaxExp}

\* link.get("exp", 0)
GetExp(y) == IF y.has THEN y.exp ELSE 0

\* TrustChain.__init__, line 32: lambda x, y: x if x and x < y.get("exp", 0)
\* else y.get("exp", 0); a Python int is true iff it is not 0.
ExpLambda(x, y) == IF x # 0 /\ x < GetExp(y) THEN x ELSE GetExp(y)

\* TrustChain(chain) for every non-empty chain of statements.
InitExp ==
    /\ status = "chain"
    /\ anchors = {}
    /\ cfg = [e \in Entities |-> Blank("unknown")]
    /\ stmts = {}
    /\ devs = 0
    /\ nodes = <<>>
    /\ stack = <<>>
    /\ ret = "none"
    /\ seen = <<>>
    /\ fetches = <<>>
    /\ result = <<>>
    /\ op = "chains"
    /\ error = ""
    /\ out = <<>>
    /\ expChain \in UNION {[1..n -> ExpStatements] : n \in 1..MaxChainLen}
    /\ expPos = 0
    /\ expAcc = 0
    /\ TreeUnused
    /\ FunUnused
    /\ prev = <<>>

\* TrustChain.__init__, lines 31-35: one step of reduce(..., self._chain, 0).
ExpFold ==
    /\ status = "chain"
    /\ expPos < Len(expChain)
    /\ expAcc' = ExpLambda(expAcc, expChain[expPos + 1])
    /\ expPos' = expPos + 1
    /\ UNCHANGED <<resolverVars, expChain, treeVars, funVars, procVars>>

NextExp == ExpFold

SpecExp == InitExp /\ [][NextExp]_vars

\* ---------------------------------------------------- federation subtree
\* A decoded entity configuration as the subtree walk reads it: the entity
\* asked (url), the sub claim and the entity types of its metadata, in the
\* order of the mapping; no types stands for missing metadata.
TreeCfg(e, sub, types) == [st |-> "ok", url |-> e, sub |-> sub, types |-> types]

TreeBlank(st, e) == [st |-> st, url |-> e, sub |-> NoSub, types |-> <<>>]

\* The response of a list endpoint: the entity ids listed, or a failure.
ListResponse(st, subs) == [st |-> st, subs |-> subs]

RECURSIVE ListedCount(_)
ListedCount(n) == IF n = 0 THEN 0 ELSE Len(tlists[n].subs) + ListedCount(n - 1)

\* What MaxSize leaves for further list entries and deviations.
TreeBudget == MaxSize - (ListedCount(NumEntities) + tdevs)

\* Entities named so far by the call or by a response.
TreeMentioned ==
    {StartingEntity}
      \cup {e \in Entities : tcfg[e].st # "unknown"}
      \cup UNION {Range(tlists[e].subs) : e \in Entities}
      \cup ({tcfg[e].sub : e \in Entities} \ {NoSub})

\* The responses {e}/.well-known/openid-federation may give to the walk; a
\* plain one is the configuration of a federation entity about itself.
TreeCfgResponses(e, parentSub) ==
    LET deviating ==
            {TreeBlank("fail", e)}
              \cup {TreeCfg(e, x, <<"federation_entity">>) :
                        x \in {parentSub, NoSub, OtherThan(e)} \ {e}}
              \cup {TreeCfg(e, e, t) :
                        t \in {<<>>, <<"openid_provider">>,
                               <<"federation_entity", "openid_provider">>}}
    IN  {TreeCfg(e, e, <<"federation_entity">>)}
          \cup (IF TreeBudget >= 1 THEN deviating ELSE {})

TreeCost(r) == IF r = TreeCfg(r.url, r.url, <<"federation_entity">>) THEN 0 ELSE 1

\* The responses the list endpoint of an entity may give.
TreeListResponses ==
    {ListResponse("fail", <<>>)}
      \cup {ListResponse("ok", l) :
                l \in HintLists(TreeMentioned,
                                IF TreeBudget < MaxHints THEN TreeBudget ELSE MaxHints)}

\* FedTree.__init__
FedTree(entity) == [entity |-> entity, subordinates |-> <<>>]

\* A call of FedTree.discover: the node, the list fetched, the entry reached.
TreeFrame(n) == [node |-> n, subs |-> <<>>, i |-> 1, step |-> "enter"]

TreeTop == tstack[Len(tstack)]

InitTree ==
    /\ status = "start"
    /\ op = "subtree"
    /\ anchors = {}
    /\ cfg = [e \in Entities |-> Blank("unknown")]
    /\ stmts = {}
    /\ devs = 0
    /\ nodes = <<>>
    /\ stack = <<>>
    /\ ret = "none"
    /\ seen = <<>>
    /\ fetches = <<>>
    /\ result = <<>>
    /\ error = ""
    /\ out = <<>>
    /\ expChain = <<>>
    /\ expPos = 0
    /\ expAcc = 0
    /\ tcfg = [e \in Entities |-> TreeBlank("unknown", e)]
    /\ tlists = [e \in Entities |-> ListResponse("unknown", <<>>)]
    /\ tdevs = 0
    /\ tnodes = <<>>
    /\ tstack = <<>>
    /\ tout = <<>>
    /\ FunUnused
    /\ prev = <<>>

treeIdle == <<anchors, cfg, stmts, devs, nodes, stack, ret, seen, result, op, out,
              expVars, funVars, procVars>>

\* subtree, lines 161-165: fetch the root's configuration (a failure
\* propagates) and create the root node.
SubtreeStart ==
    /\ op = "subtree"
    /\ status = "start"
    /\ \E r \in TreeCfgResponses(StartingEntity, NoSub) :
        /\ tcfg' = [tcfg EXCEPT ![StartingEntity] = r]
        /\ tdevs' = tdevs + TreeCost(r)
        /\ fetches' = Append(fetches, Fetch("cfg", StartingEntity, NoSub))
        /\ IF r.st = "fail"
           THEN status' = "raised" /\ error' = "fetch" /\ UNCHANGED <<tnodes, tstack>>
           ELSE /\ status' = "running"
                /\ error' = error
                /\ tnodes' = <<FedTree(r)>>
                /\ tstack' = <<TreeFrame(1)>>
    /\ UNCHANGED <<tlists, tout, treeIdle>>

SetTreeTop(f) == [tstack EXCEPT ![Len(tstack)] = f]

\* FedTree.discover, line 33: the loop goes on with the next entry.
NextEntry(f) == [f EXCEPT !.i = @ + 1, !.step = "loop"]

\* A discover whose handler gives up the rest of the list.
SkipEntryAndRest(f) == [f EXCEPT !.i = Len(f.subs) + 1, !.step = "loop"]

\* FedTree.discover, lines 48-49: the entry's exception is logged and
\* swallowed inside the loop.
SkipEntry(f) == NextEntry(f)

IsNotFederationEntity(t) == t # "federation_entity"

\* utils.get_entity_type: the first type, or the first type that is not
\* federation_entity when there are several.

\* A get_entity_type that always takes the first type.
GetEntityTypeFirst(etypes) == IF Len(etypes) = 0 THEN "raise" ELSE etypes[1]

GetEntityType(etypes) ==
    IF Len(etypes) = 0 THEN "raise"
    ELSE IF Len(etypes) > 1 /\ "federation_entity" \in Range(etypes)
    THEN SelectSeq(etypes, IsNotFederationEntity)[1]
    ELSE etypes[1]

\* FedTree.discover returns without exception: the root's walk is over, a
\* subordinate is appended to its parent, which goes on with the next entry.
DiscoverReturns ==
    IF Len(tstack) = 1
    THEN /\ tstack' = <<>>
         /\ tnodes' = tnodes
         /\ status' = "walked"
    ELSE LET parent == tstack[Len(tstack) - 1]
         IN  /\ tnodes' = [tnodes EXCEPT ![parent.node].subordinates =
                                            Append(@, TreeTop.node)]
             /\ tstack' = Append(SubSeq(tstack, 1, Len(tstack) - 2), NextEntry(parent))
             /\ status' = status

\* FedTree.discover, lines 29-30: a node without metadata raises; the root's
\* exception leaves subtree(), a subordinate's is caught by its parent.
TreeEnter ==
    /\ op = "subtree"
    /\ status = "running"
    /\ tstack # <<>>
    /\ TreeTop.step = "enter"
    /\ IF tnodes[TreeTop.node].entity.types = <<>>
       THEN IF Len(tstack) = 1
            THEN status' = "raised" /\ error' = "no_metadata" /\ tstack' = <<>>
            ELSE /\ tstack' = Append(SubSeq(tstack, 1, Len(tstack) - 2),
                                     SkipEntry(tstack[Len(tstack) - 1]))
                 /\ UNCHANGED <<status, error>>
       ELSE /\ tstack' = SetTreeTop([TreeTop EXCEPT !.step = "list"])
            /\ UNCHANGED <<status, error>>
    /\ UNCHANGED <<tcfg, tlists, tdevs, tnodes, tout, fetches, treeIdle>>

\* FedTree.discover, lines 31-32 and 50-51, utils.get_subordinates: the list
\* endpoint named by metadata.federation_entity is asked; any failure makes
\* the node a leaf.
TreeGetSubordinates ==
    /\ op = "subtree"
    /\ status = "running"
    /\ tstack # <<>>
    /\ TreeTop.step = "list"
    /\ LET entity == tnodes[TreeTop.node].entity
       IN  IF "federation_entity" \notin Range(entity.types)
           THEN DiscoverReturns /\ UNCHANGED <<tlists, fetches>>
           ELSE \E r \in (IF tlists[entity.url].st = "unknown"
                          THEN TreeListResponses ELSE {tlists[entity.url]}) :
                /\ tlists' = [tlists EXCEPT ![entity.url] = r]
                /\ fetches' = Append(fetches, Fetch("list", entity.url, NoSub))
                /\ IF r.st = "fail"
                   THEN DiscoverReturns
                   ELSE /\ tstack' = SetTreeTop([TreeTop EXCEPT !.step = "loop",
                                                                !.subs = r.subs])
                        /\ UNCHANGED <<tnodes, status>>
    /\ UNCHANGED <<tcfg, tdevs, tout, error, treeIdle>>

\* FedTree.discover, lines 33-49: fetch the configuration of the next entry;
\* a failed fetch and an entry whose sub is this node's sub are skipped,
\* otherwise the subordinate's discover is called.
TreeFetchChild ==
    /\ op = "subtree"
    /\ status = "running"
    /\ tstack # <<>>
    /\ TreeTop.step = "loop"
    /\ TreeTop.i <= Len(TreeTop.subs)
    /\ Len(tstack) < MaxDepth
    /\ LET x == TreeTop.subs[TreeTop.i]
           self == tnodes[TreeTop.node].entity
       IN  \E r \in (IF tcfg[x].st = "unknown"
                     THEN TreeCfgResponses(x, self.sub) ELSE {tcfg[x]}) :
            /\ tcfg' = [tcfg EXCEPT ![x] = r]
            /\ tdevs' = tdevs + (IF tcfg[x].st = "unknown" THEN TreeCost(r) ELSE 0)
            /\ fetches' = Append(fetches, Fetch("cfg", x, NoSub))
            /\ IF r.st = "fail" \/ r.sub = self.sub
               THEN /\ tstack' = SetTreeTop(SkipEntry(TreeTop))
                    /\ tnodes' = tnodes
               ELSE /\ tnodes' = Append(tnodes, FedTree(r))
                    /\ tstack' = Append(SetTreeTop([TreeTop EXCEPT !.step = "await"]),
                                        TreeFrame(Len(tnodes) + 1))
    /\ UNCHANGED <<tlists, tout, status, error, treeIdle>>

\* FedTree.discover: every entry of the list was tried.
TreeLoopEnd ==
    /\ op = "subtree"
    /\ status = "running"
    /\ tstack # <<>>
    /\ TreeTop.step = "loop"
    /\ TreeTop.i > Len(TreeTop.subs)
    /\ DiscoverReturns
    /\ UNCHANGED <<tcfg, tlists, tdevs, tout, fetches, error, treeIdle>>

RECURSIVE Serialize(_, _)
\* FedTree.serialize: {sub: {entity_type, entity_configuration,
\* subordinates}}; dict.update keeps, of the subordinates with one sub, the
\* last.
Serialize(ns, n) ==
    LET subs == ns[n].subordinates
        last == {j \in 1..Len(subs) :
                    \A k \in (j + 1)..Len(subs) :
                        ns[subs[k]].entity.sub # ns[subs[j]].entity.sub}
    IN  [sub |-> ns[n].entity.sub,
         entity_type |-> GetEntityType(ns[n].entity.types),
         entity_configuration |-> ns[n].entity.url,
         subordinates |-> {Serialize(ns, subs[j]) : j \in last}]

\* subtree, lines 166-170: the walk is over, the tree is serialized.
SubtreeSerialize ==
    /\ op = "subtree"
    /\ status = "walked"
    /\ tout' = <<Serialize(tnodes, 1)>>
    /\ status' = "done"
    /\ UNCHANGED <<tcfg, tlists, tdevs, tnodes, tstack, fetches, error, treeIdle>>

NextTree ==
    \/ SubtreeStart
    \/ TreeEnter
    \/ TreeGetSubordinates
    \/ TreeFetchChild
    \/ TreeLoopEnd
    \/ SubtreeSerialize

SpecTree == InitTree /\ [][NextTree]_vars

\* -------------------------------------------------------- get_entity_type
\* entity types a metadata mapping may hold
MaxTypes == 3

MetadataTypes ==
    {"openid_relying_party", "openid_provider", "oauth_authorization_server",
     "oauth_client", "federation_entity"}

RECURSIVE KeyLists(_, _)
\* The key lists of a mapping with at most n of the keys of S.
KeyLists(S, n) ==
    IF n = 0 THEN {<<>>}
    ELSE {<<>>} \cup UNION {{<<x>> \o t : t \in KeyLists(S \ {x}, n - 1)} : x \in S}

\* The variables of the resolver and of the expiration while another
\* operation runs.
ResolverUnused ==
    /\ anchors = {}
    /\ cfg = [e \in Entities |-> Blank("unknown")]
    /\ stmts = {}
    /\ devs = 0
    /\ nodes = <<>>
    /\ stack = <<>>
    /\ ret = "none"
    /\ seen = <<>>
    /\ fetches = <<>>
    /\ result = <<>>
    /\ error = ""
    /\ out = <<>>
    /\ expChain = <<>>
    /\ expPos = 0
    /\ expAcc = 0

\* get_entity_type(entity) for every metadata mapping of at most MaxTypes types.
InitType ==
    /\ status = "call"
    /\ op = "get_entity_type"
    /\ ResolverUnused
    /\ TreeUnused
    /\ input \in KeyLists(MetadataTypes, MaxTypes)
    /\ output = "pending"
    /\ prev = <<>>

ApplyGetEntityType ==
    /\ op = "get_entity_type"
    /\ status = "call"
    /\ output' = GetEntityType(input)
    /\ status' = "returned"
    /\ UNCHANGED <<anchors, cfg, stmts, devs, nodes, stack, ret, seen, fetches,
                   result, op, error, out, expVars, treeVars, input, procVars>>

NextType == ApplyGetEntityType

SpecType == InitType /\ [][NextType]_vars

\* ------------------------------------------------------ entity identifiers
\* characters of a path
MaxPath == 3

\* A string scheme://host/path?query by its parts; a string without "://"
\* has no scheme, the empty string has no part at all.  The path is a
\* sequence of "/" and of other characters, empty or starting with "/".
Schemes == {"", "https", "http", "ftp"}
Hosts == {"", "op.example", "ta.example"}
Queries == {"", "param=value"}

RECURSIVE CharSeqs(_)
CharSeqs(n) ==
    IF n = 0 THEN {<<>>}
    ELSE {<<>>} \cup {<<c>> \o t : c \in {"/", "p"}, t \in CharSeqs(n - 1)}

Paths(n) == {<<>>} \cup (IF n = 0 THEN {} ELSE {<<"/">> \o t : t \in CharSeqs(n - 1)})

UrlStrings ==
    {[scheme |-> sc, host |-> h, path |-> pa, query |-> q] :
        sc \in Schemes, h \in Hosts, pa \in Paths(MaxPath), q \in Queries}

ValueError == [scheme |-> "ValueError", host |-> "", path |-> <<>>, query |-> ""]

\* pydantic's HttpUrl(url): an absolute URL with a host is required, the
\* empty path of a URL becomes "/".  The scheme is held to http and https
\* when the type is validated (strict); called as a constructor, it is so
\* only in the builds of pydantic where HttpUrl is a class of its own.
HttpUrl(s, strict) ==
    IF s.scheme = "" \/ s.host = "" \/ s.scheme = "ValueError"
        \/ (strict /\ s.scheme \notin {"http", "https"})
    THEN ValueError
    ELSE [s EXCEPT !.path = IF @ = <<>> THEN <<"/">> ELSE @]

RECURSIVE RStrip(_)
\* str.rstrip("/")
RStrip(path) ==
    IF path # <<>> /\ path[Len(path)] = "/"
    THEN RStrip(SubSeq(path, 1, Len(path) - 1))
    ELSE path

\* URL.__eq__(other) and URL.__hash__ for URL(a) and other = URL(b) or the
\* string b: the HttpUrl values are compared and hashed.
UrlEq(a, b, strict) ==
    LET x == HttpUrl(a, strict)
        y == HttpUrl(b, strict)
    IN  IF x = ValueError \/ y = ValueError THEN "ValueError"
        ELSE IF x = y THEN "equal" ELSE "unequal"

\* A remove_trailing_slashes that leaves the path as it is.
RemoveTrailingSlashesNot(u) == u

\* URL.remove_trailing_slashes of the URL u (an HttpUrl value): the string
\* urlunparse gives for the parts of str(u) with the path stripped.
RemoveTrailingSlashes(u) == [u EXCEPT !.path = RStrip(@)]

\* utils.well_known_url(entity_id); "wk" stands for the characters
\* .well-known/openid-federation.
WellKnownUrl(s, strict) ==
    IF HttpUrl(s, strict) = ValueError THEN ValueError
    ELSE HttpUrl([HttpUrl(s, strict) EXCEPT !.path = RStrip(@) \o <<"/", "wk">>], strict)

\* The REST endpoint /entity/{entity_id}: the path parameter is validated as
\* an HttpUrl (400 when that fails), then the configuration is fetched (500
\* when that fails).
EntityEndpoint(s, fetchOk) ==
    IF HttpUrl(s, TRUE) = ValueError THEN 400
    ELSE IF fetchOk THEN 200 ELSE 500

UrlOps == {"URL", "eq", "remove_trailing_slashes", "well_known_url", "entity_endpoint"}

\* Every call of the functions on entity identifiers, for strings of the
\* shapes above.
InitUrl ==
    /\ status = "call"
    /\ op \in UrlOps
    /\ ResolverUnused
    /\ TreeUnused
    /\ \E a \in UrlStrings, strict \in BOOLEAN :
        \E b \in (IF op = "eq" THEN UrlStrings ELSE {a}),
           fetchOk \in (IF op = "entity_endpoint" THEN BOOLEAN ELSE {TRUE}) :
            input = [a |-> a, b |-> b, strict |-> strict, fetchOk |-> fetchOk]
    /\ output = "pending"
    /\ prev = <<>>

urlIdle == <<anchors, cfg, stmts, devs, nodes, stack, ret, seen, fetches,
             result, op, error, out, expVars, treeVars, input, procVars>>

\* URL.__init__
UrlInit ==
    /\ op = "URL"
    /\ status = "call"
    /\ output' = HttpUrl(input.a, input.strict)
    /\ status' = "returned"
    /\ UNCHANGED urlIdle

\* URL(a) == URL(b), hash(URL(a)) == hash(URL(b))
UrlCompare ==
    /\ op = "eq"
    /\ status = "call"
    /\ output' = UrlEq(input.a, input.b, input.strict)
    /\ status' = "returned"
    /\ UNCHANGED urlIdle

\* URL(a).remove_trailing_slashes()
UrlRemoveTrailingSlashes ==
    /\ op = "remove_trailing_slashes"
    /\ status = "call"
    /\ output' = IF HttpUrl(input.a, input.strict) = ValueError THEN ValueError
                 ELSE RemoveTrailingSlashes(HttpUrl(input.a, input.strict))
    /\ status' = "returned"
    /\ UNCHANGED urlIdle

\* well_known_url(URL(a))
UrlWellKnown ==
    /\ op = "well_known_url"
    /\ status = "call"
    /\ output' = WellKnownUrl(input.a, input.strict)
    /\ status' = "returned"
    /\ UNCHANGED urlIdle

\* GET /entity/{a}
UrlEntityEndpoint ==
    /\ op = "entity_endpoint"
    /\ status = "call"
    /\ output' = EntityEndpoint(input.a, input.fetchOk)
    /\ status' = "returned"
    /\ UNCHANGED urlIdle

NextUrl ==
    \/ UrlInit
    \/ UrlCompare
    \/ UrlRemoveTrailingSlashes
    \/ UrlWellKnown
    \/ UrlEntityEndpoint

SpecUrl == InitUrl /\ [][NextUrl]_vars

\* -------------------------------------------------- EntityStatement.verify
\* Claims outside the standard ones a payload may carry, and a standard one.
ExtraClaims == {"ext1", "ext2"}
CritNames == ExtraClaims \cup {"jti"}

\* EntityStatement.verify, lines 365-377, after the verification of the
\* standard claims: extra are the payload's extra claims, crit its crit claim
\* (present or not, with its names), known the known_extensions given.
VerifyCrit(extra, crit, known) ==
    IF extra = {} THEN "ok"
    ELSE IF ~crit.present THEN "ok"
    ELSE IF crit.names = {} THEN "ValueError"
    ELSE LET musts == crit.names \cap extra
         IN  IF known # {}
             THEN IF musts \subseteq known THEN "ok" ELSE "FedException"
             ELSE "FedException"

\* EntityStatement(**payload).verify(known_extensions=known) for every
\* payload over the claims above.
InitCrit ==
    /\ status = "call"
    /\ op = "verify"
    /\ ResolverUnused
    /\ TreeUnused
    /\ \E extra \in SUBSET ExtraClaims, known \in SUBSET ExtraClaims,
          present \in BOOLEAN :
        \E names \in (IF present THEN SUBSET CritNames ELSE {{}}) :
            input = [extra |-> extra, known |-> known,
                     crit |-> [present |-> present, names |-> names]]
    /\ output = "pending"
    /\ prev = <<>>

ApplyVerify ==
    /\ op = "verify"
    /\ status = "call"
    /\ output' = VerifyCrit(input.extra, input.crit, input.known)
    /\ status' = "returned"
    /\ UNCHANGED urlIdle

NextCrit == ApplyVerify

SpecCrit == InitCrit /\ [][NextCrit]_vars

\* ------------------------------------------------------- HTTP client session
\* The commands of cli.py and the handlers of api_v1/endpoints.py that run an
\* operation of core.py.
CliCommands ==
    {"configuration", "jwks", "metadata", "trustchains", "fetch", "list",
     "discovery", "resolve", "subtree"}
RestHandlers ==
    {"entity", "fetch", "list_subordinates", "trustchains", "subtree", "resolve",
     "discovery"}

\* How an invocation goes: the operation of core.py returns and so does the
\* caller, the operation raises, or the caller raises after it has returned.
Outcomes == {"ok", "core_raises", "caller_raises"}

\* One invocation of a command or of a handler; output counts the
\* aiohttp.ClientSession objects created and those not closed.
InitSession ==
    /\ status = "call"
    /\ op = "invocation"
    /\ ResolverUnused
    /\ TreeUnused
    /\ \E entry \in {"cli", "rest"}, outcome \in Outcomes :
        \E command \in (IF entry = "cli" THEN CliCommands ELSE RestHandlers) :
            input = [entry |-> entry, command |-> command, outcome |-> outcome]
    /\ output = [created |-> 0, open |-> 0]
    /\ prev = <<>>

\* cli.py: `async with aiohttp.ClientSession() as http_session`;
\* endpoints.py: `http_session=aiohttp.ClientSession()` in the arguments of
\* the call of the operation.
OpenSession ==
    /\ op = "invocation"
    /\ status = "call"
    /\ output' = [created |-> output.created + 1, open |-> output.open + 1]
    /\ status' = "opened"
    /\ UNCHANGED urlIdle

\* The operation of core.py runs with the session it was given; no operation
\* creates or closes a session.
RunOperation ==
    /\ op = "invocation"
    /\ status = "opened"
    /\ status' = IF input.outcome = "core_raises" THEN "raising" ELSE "ran"
    /\ UNCHANGED <<output, urlIdle>>

\* The caller prints or builds its response, or raises (no graph to export).
CallerFinishes ==
    /\ op = "invocation"
    /\ status = "ran"
    /\ status' = IF input.outcome = "caller_raises" THEN "raising" ELSE "returning"
    /\ UNCHANGED <<output, urlIdle>>

\* cli.py: the `async with` block is left, by return or by exception, and
\* ClientSession.__aexit__ closes the session.
CliExit ==
    /\ op = "invocation"
    /\ input.entry = "cli"
    /\ status \in {"raising", "returning"}
    /\ output' = [output EXCEPT !.open = @ - 1]
    /\ status' = "ended"
    /\ UNCHANGED urlIdle

\* endpoints.py: the handler returns its response or the exception goes to
\* the exception handlers of the application; nothing refers to the session
\* any more.
RestExit ==
    /\ op = "invocation"
    /\ input.entry = "rest"
    /\ status \in {"raising", "returning"}
    /\ status' = "ended"
    /\ UNCHANGED <<output, urlIdle>>

NextSession ==
    \/ OpenSession
    \/ RunOperation
    \/ CallerFinishes
    \/ CliExit
    \/ RestExit

SpecSession == InitSession /\ [][NextSession]_vars

\* ------------------------------------------------------ fetch_jws_from_url
\* The URLs fetched: a well-known URL or a fetch endpoint, with and without
\* a trailing slash and a query string.
FetchUrls ==
    {[scheme |-> "https", host |-> "op.example", path |-> pa, query |-> q] :
        pa \in {<<"/", "wk">>, <<"/", "wk", "/">>}, q \in Queries}

\* What a GET may give: a response with its status code and body, or an
\* exception of the transport; k tells the first request from the second.
Answers(k) ==
    {[kind |-> "response", status |-> c, body |-> <<"body", k>>, exc |-> <<>>] :
        c \in {200, 404, 500}}
      \cup {[kind |-> "exception", status |-> 0, body |-> <<>>, exc |-> <<"exc", k>>]}

\* Python's None
None == <<>>

\* A loop that tries the URL as given first.
TriedUrlsReversed(url) == <<url, RemoveTrailingSlashes(url)>>

\* fetch_jws_from_url, line 203: [url.remove_trailing_slashes(), str(url)]
TriedUrls(url) == <<RemoveTrailingSlashes(url), url>>

\* fetch_jws_from_url(url, http_session) for every URL and every pair of
\* answers; output holds the locals of the function, the requests issued
\* and what the function returned or raised.
InitFetch ==
    /\ status = "call"
    /\ op = "fetch_jws_from_url"
    /\ ResolverUnused
    /\ TreeUnused
    /\ \E url \in FetchUrls, a1 \in Answers(1), a2 \in Answers(2) :
        input = [url |-> url, answers |-> <<a1, a2>>]
    /\ output = [i |-> 1, requests |-> <<>>, response |-> None,
                 last_exception |-> None, last_status_code |-> None,
                 returned |-> None, raised |-> None]
    /\ prev = <<>>

\* fetch_jws_from_url, lines 203-214: one iteration of the loop.
TryUrl ==
    /\ op = "fetch_jws_from_url"
    /\ status = "call"
    /\ output.i <= Len(TriedUrls(input.url))
    /\ LET a == input.answers[output.i]
           asked == [output EXCEPT !.requests = Append(@, TriedUrls(input.url)[output.i]),
                                   !.i = @ + 1]
       IN  IF a.kind = "exception"
           THEN /\ output' = [asked EXCEPT !.last_exception = a.exc]
                /\ status' = status
           ELSE IF a.status = 200
           THEN /\ output' = [asked EXCEPT !.response = a.body,
                                           !.last_status_code = <<a.status>>,
                                           !.returned = a.body]
                /\ status' = "returned"
           ELSE /\ output' = [asked EXCEPT !.response = a.body,
                                           !.last_status_code = <<a.status>>]
                /\ status' = status
    /\ UNCHANGED urlIdle

\* fetch_jws_from_url, lines 216-225: no URL answered 200.
RaiseFetchError ==
    /\ op = "fetch_jws_from_url"
    /\ status = "call"
    /\ output.i > Len(TriedUrls(input.url))
    /\ output' = [output EXCEPT !.raised =
                      IF output.response # None
                      THEN <<"InternalException", "status", output.last_status_code>>
                      ELSE IF output.last_exception # None
                      THEN <<"InternalException", "exception", output.last_exception>>
                      ELSE <<"Exception">>]
    /\ status' = "raised"
    /\ UNCHANGED urlIdle

NextFetch ==
    \/ TryUrl
    \/ RaiseFetchError

SpecFetch == InitFetch /\ [][NextFetch]_vars

\* ------------------------------------------------------------- claims
Last(c) == c[Len(c)]
Chains == {result[k] : k \in 1..Len(result)}
Done == status = "done"
\* every response drawn so far is the one of a well-formed federation
AllPlain == devs = 0

\* The chain of the authority-hint path p (entity ids, starting entity first):
\* the first entity's configuration, the statement of each next entity about
\* the one before it, the last entity's configuration.
ExpectedChain(p) ==
    <<cfg[p[1]]>> \o [i \in 1..(Len(p) - 1) |-> StmtOf(p[i + 1], p[i])] \o <<cfg[Last(p)]>>

\* C1: every chain returned by get_trustchains starts with a self-signed
\* statement, links each statement's iss to the next statement's sub, and ends
\* with a self-signed statement, whatever the endpoints answer.
C1_ChainInvariant ==
    Done => \A c \in Chains :
        /\ c[1].iss = c[1].sub
        /\ \A i \in 1..(Len(c) - 1) : c[i].iss = c[i + 1].sub
        /\ Last(c).iss = Last(c).sub

\* C2: every returned chain ends with the entity configuration of a terminal
\* entity: its sub is a trust anchor when anchors were given, and it has no
\* authority_hints when none were given.
C2_EndsAtTerminal ==
    Done => \A c \in Chains :
        /\ Last(c).st = "ok"
        /\ Last(c).about = NoSub
        /\ anchors # {} => Last(c).sub \in anchors
        /\ anchors = {} => Last(c).hints = <<>>

C2_Witness ==
    /\ Done
    /\ anchors # {}
    /\ \E c \in Chains : Len(c) >= 4 /\ Last(c).sub \in anchors /\ Last(c).hints # <<>>

RECURSIVE Follow(_, _)
\* The entities met from e by following the only authority hint of each.
Follow(e, n) ==
    IF n = 0 \/ cfg[e].st # "ok" \/ Len(cfg[e].hints) # 1
    THEN <<e>>
    ELSE <<e>> \o Follow(cfg[e].hints[1], n - 1)

LinearPath == Follow(StartingEntity, NumEntities)

\* leaf -> I1 -> ... -> Ik -> TA: every entity has the next one as its only
\* hint, the last one has none, and no entity occurs twice.
IsLinear ==
    /\ Len(LinearPath) >= 2
    /\ \A i \in 1..Len(LinearPath) : cfg[LinearPath[i]].st = "ok"
    /\ cfg[Last(LinearPath)].hints = <<>>
    /\ \A i, j \in 1..Len(LinearPath) : LinearPath[i] = LinearPath[j] => i = j

\* C3: in a linear hierarchy in which every fetch succeeds, with the last
\* entity as the only anchor of the hierarchy, exactly one chain is returned:
\* [leaf_cfg, I1-about-leaf, ..., TA-about-Ik, TA_cfg], of length k+3, whose
\* summary is the path's entity ids; with a non-empty anchor set that holds no
\* entity of the hierarchy the result is empty.
C3_LinearHierarchy ==
    (Done /\ AllPlain /\ IsLinear) =>
        /\ anchors \cap Range(LinearPath) = {Last(LinearPath)} =>
              /\ result = <<ExpectedChain(LinearPath)>>
              /\ Len(result[1]) = (Len(LinearPath) - 2) + 3
              /\ TrustChainStr(result[1]) = LinearPath
              /\ \A i \in 1..Len(result[1]) : result[1][i].st = "ok"
        /\ (anchors # {} /\ anchors \cap Range(LinearPath) = {}) => result = <<>>

C3_Witness ==
    /\ Done /\ AllPlain /\ IsLinear
    /\ Len(LinearPath) = 4
    /\ anchors = {Last(LinearPath)}
    /\ Len(result) = 1
    /\ Len(result[1]) = 5

RECURSIVE Reach(_, _)
\* The entities reachable from those of S over at most n authority hints.
Reach(S, n) ==
    IF n = 0 THEN S
    ELSE Reach(S \cup UNION {Range(cfg[e].hints) : e \in S}, n - 1)

Acyclic ==
    \A e \in Entities : e \notin Reach(Range(cfg[e].hints), NumEntities)

Terminal(e) ==
    \/ e \in anchors
    \/ anchors = {} /\ cfg[e].st = "ok" /\ cfg[e].hints = <<>>

RECURSIVE PathsFrom(_, _)
\* The paths that extend p by at most n authority hints up to the first terminal.
PathsFrom(p, n) ==
    IF Terminal(Last(p)) THEN {p}
    ELSE IF n = 0 THEN {}
    ELSE UNION {PathsFrom(Append(p, h), n - 1) : h \in Range(cfg[Last(p)].hints)}

\* The authority-hint paths (of one hint at least) from the starting entity to
\* the first terminal.
HintPaths ==
    IF Terminal(StartingEntity) THEN {}
    ELSE PathsFrom(<<StartingEntity>>, NumEntities)

NoDuplicateHints ==
    \A e \in Entities : \A i, j \in 1..Len(cfg[e].hints) :
        cfg[e].hints[i] = cfg[e].hints[j] => i = j

\* C4: when the hint graph is acyclic and every fetch succeeds, the chains
\* returned are exactly the chains of the authority-hint paths from the
\* starting entity to a terminal, one per path, also when two paths meet in
\* the same authority.
C4_AllPaths ==
    (Done /\ AllPlain /\ Acyclic) =>
        /\ Chains = {ExpectedChain(p) : p \in HintPaths}
        /\ NoDuplicateHints => Len(result) = Cardinality(HintPaths)

C4_Witness ==
    /\ Done /\ AllPlain /\ Acyclic
    /\ \E c, d \in Chains :
        /\ Len(c) = 4 /\ Len(d) = 4
        /\ c[2].iss # d[2].iss
        /\ Last(c) = Last(d)

RequestCount == Cardinality({i \in DOMAIN fetches : fetches[i].kind # "recfg"})

TwoEntityCycle ==
    /\ cfg[1] = PlainCfg(1, <<2>>)
    /\ cfg[2] = PlainCfg(2, <<1>>)
    /\ anchors \cap {1, 2} = {}

\* C5: with A.authority_hints=[B] and B.authority_hints=[A] and no anchor
\* among them, the resolver issues at most 4 fetches.
C5_CycleBounded == TwoEntityCycle => RequestCount <= 4

\* C6: when get_trustchains ends, every authority hint of every node that was
\* resolved and is not an anchor has been explored, whatever failed on the
\* other hints.
C6_OtherHintsExplored ==
    status \in {"done", "raised"} =>
        \A n \in 1..Len(nodes) :
            LET e == nodes[n].entity
            IN  (e.sub # NoSub /\ e.sub \notin anchors) =>
                    \A j \in 1..Len(e.hints) :
                        \E f \in Range(fetches) : f.kind = "cfg" /\ f.url = e.hints[j]

\* C7: get_trustchains raises if and only if the starting entity's own
\* configuration cannot be fetched or decoded (a payload without sub counted
\* as undecodable).
C7_RaisesOnlyForStart ==
    status \in {"raised", "done"} =>
        ((status = "raised") <=>
            (\/ cfg[StartingEntity].st = "fail"
             \/ cfg[StartingEntity].st = "ok" /\ cfg[StartingEntity].sub = NoSub))

\* C8: no returned chain holds a subordinate statement whose signature does
\* not verify under its issuer's keys.
C8_SignaturesVerified ==
    Done => \A c \in Chains : \A i \in 1..Len(c) : c[i].about # NoSub => c[i].sig

\* C9: a chain whose anchor declares constraints.max_path_length = k has at
\* most k intermediaries between the leaf and the anchor.
C9_MaxPathLength ==
    Done => \A c \in Chains : Last(c).mpl # NoMpl => Len(c) - 3 <= Last(c).mpl

\* C10: the expiration TrustChain computes for a non-empty chain is the
\* minimum of the exp values of its statements, an absent exp counting as 0.
C10_ExpIsMin ==
    (status = "chain" /\ expPos = Len(expChain)) =>
        expAcc = Min({GetExp(expChain[i]) : i \in 1..Len(expChain)})

RECURSIVE LexLeq(_, _)
\* Lexicographic order of two sequences of entity ids.
LexLeq(a, b) ==
    IF a = <<>> THEN TRUE
    ELSE IF b = <<>> THEN FALSE
    ELSE IF Head(a) # Head(b) THEN Head(a) < Head(b)
    ELSE LexLeq(Tail(a), Tail(b))

\* C11: when several chains to the trust anchor exist, resolve_entity takes
\* the metadata from the shortest one, and among equally short chains from
\* the one whose issuer ids come first in lexicographic order (stated for
\* federations whose responses are all well-formed).
C11_ShortestChain ==
    (status = "resolved" /\ AllPlain) =>
        \A k \in 1..Len(result) :
            /\ Len(out) <= Len(result[k])
            /\ Len(out) = Len(result[k]) =>
                    LexLeq(TrustChainStr(out), TrustChainStr(result[k]))

\* C12: resolve_entity fails with the no-chain error when no chain to the
\* trust anchor was found, and no other operation turns an empty list of
\* chains into an error.
C12_NoChainOnlyInResolveEntity ==
    /\ status = "resolved" => Len(result) > 0
    /\ (status = "raised" /\ error \in {"no_chain", "no_anchors"}) =>
            (op = "chains" /\ error = "no_chain")

\* C13: a metadata-policy conflict or violation along a chain makes only
\* resolve_entity fail: a run of the resolver that is not resolve_entity's
\* (discover, or get_trustchains with no or several trust anchors) never
\* raises because of a policy failure.
C13_PolicyFailureOnlyInResolveEntity ==
    (status = "raised" /\ error = "policy") =>
        (op = "chains" /\ Cardinality(anchors) = 1)

\* The entries the list endpoint of entity e gives to the walk.
Listed(e) ==
    IF "federation_entity" \in Range(tcfg[e].types) /\ tlists[e].st = "ok"
    THEN tlists[e].subs ELSE <<>>

\* An entry that is neither rejected nor unusable under a node with sub p.
GoodEntry(x, p) ==
    tcfg[x].st = "ok" /\ tcfg[x].sub # p /\ tcfg[x].types # <<>>

IsGoodUnder(p) == [x \in Entities |-> GoodEntry(x, p)]

RECURSIVE ExpectedSubtree(_, _)
\* The tree of the federation without its bad entries, to depth d.
ExpectedSubtree(e, d) ==
    LET good == SelectSeq(Listed(e), LAMBDA x : IsGoodUnder(tcfg[e].sub)[x])
    IN  [entity |-> e,
         subordinates |-> IF d = 0 THEN <<>>
                          ELSE [j \in 1..Len(good) |-> ExpectedSubtree(good[j], d - 1)]]

RECURSIVE ActualSubtree(_)
ActualSubtree(n) ==
    [entity |-> tnodes[n].entity.url,
     subordinates |-> [j \in 1..Len(tnodes[n].subordinates) |->
                          ActualSubtree(tnodes[n].subordinates[j])]]

TreeDone == op = "subtree" /\ status = "done"

\* C14: in FedTree.discover a listed subordinate that is rejected (its sub is
\* the listing node's sub), cannot be fetched or has no metadata is skipped,
\* and every other entry of the list is still fetched, walked and added: the
\* tree is that of the federation without the bad entries.
C14_BadEntriesSkipped ==
    TreeDone =>
        /\ \A n \in 1..Len(tnodes) :
              \A x \in Range(Listed(tnodes[n].entity.url)) : tcfg[x].st # "unknown"
        /\ ActualSubtree(1) = ExpectedSubtree(StartingEntity, MaxDepth)

C14_Witness ==
    /\ TreeDone
    /\ \E n \in 1..Len(tnodes) :
        LET l == Listed(tnodes[n].entity.url)
            p == tnodes[n].entity.sub
        IN  \E i, j, k \in 1..Len(l) :
              /\ i < j /\ j < k
              /\ GoodEntry(l[i], p) /\ ~GoodEntry(l[j], p) /\ GoodEntry(l[k], p)
              /\ \E c \in Range(tnodes[n].subordinates) : tnodes[c].entity.url = l[k]

RECURSIVE Occurrences(_, _)
\* How often the entity id appears as a key of the serialized tree t.
Occurrences(t, id) ==
    LET RECURSIVE Sum(_)
        Sum(S) == IF S = {} THEN 0
                  ELSE LET c == CHOOSE c \in S : TRUE
                       IN  Occurrences(c, id) + Sum(S \ {c})
    IN  (IF t.sub = id THEN 1 ELSE 0) + Sum(t.subordinates)

\* C15: the serialized subtree holds every entity id at most once (and so
\* no entity below itself), whatever the list endpoints say; stated for
\* federations whose configurations are all well-formed.
C15_EachIdOnce ==
    (TreeDone /\ tdevs = 0) => \A id \in Entities \cup {NoSub} : Occurrences(tout[1], id) <= 1

\* C16: the entity_type reported is one of the types of the entity's
\* metadata, and it is not federation_entity when the metadata has several
\* types, federation_entity among them.
C16_EntityTypeChosen ==
    (op = "get_entity_type" /\ status = "returned" /\ output # "raise") =>
        /\ output \in Range(input)
        /\ (Len(input) > 1 /\ "federation_entity" \in Range(input)) =>
                output # "federation_entity"

C16_Witness ==
    /\ op = "get_entity_type" /\ status = "returned"
    /\ Len(input) = 3
    /\ input[1] = "federation_entity"
    /\ output = input[2]

Returned(o) == op = o /\ status = "returned"

\* The identifier a string denotes: the string without the trailing slashes
\* of its path.
Normalized(s) == [s EXCEPT !.path = RStrip(@)]

IsHttpsUrl(s) == s.scheme = "https" /\ s.host # ""

\* C17: two entity identifiers are equal, and hash equally, exactly when
\* they are identical after stripping the trailing slashes of the path.
C17_EqualityOverNormalizedForm ==
    (Returned("eq") /\ IsHttpsUrl(input.a) /\ IsHttpsUrl(input.b)) =>
        (output = "equal" <=> Normalized(input.a) = Normalized(input.b))

\* C18: remove_trailing_slashes is idempotent and leaves no trailing slash
\* in the path; well_known_url has exactly one slash between the entity's
\* path and .well-known/openid-federation and keeps the query string.
C18_NormalizationIdempotent ==
    /\ (Returned("remove_trailing_slashes") /\ output # ValueError) =>
          /\ RemoveTrailingSlashes(HttpUrl(output, input.strict)) = output
          /\ output.path = <<>> \/ output.path[Len(output.path)] # "/"
          /\ output.query = input.a.query
    /\ (Returned("well_known_url") /\ output # ValueError) =>
          LET n == Len(output.path)
          IN  /\ n >= 2
              /\ output.path[n] = "wk"
              /\ output.path[n - 1] = "/"
              /\ n >= 3 => output.path[n - 2] # "/"
              /\ SubSeq(output.path, 1, n - 2) = RStrip(input.a.path)
              /\ output.query = input.a.query
              /\ output.scheme = input.a.scheme /\ output.host = input.a.host

C18_Witness ==
    /\ Returned("well_known_url")
    /\ output # ValueError
    /\ Len(input.a.path) = 3
    /\ input.a.path[2] = "p"
    /\ input.a.path[3] = "/"
    /\ input.a.query # ""

\* C19: an identifier that is not an absolute HTTPS URL is rejected: URL()
\* raises ValueError and /entity/{entity_id} answers 400; a well-formed
\* identifier whose configuration cannot be fetched answers 500.
C19_OnlyHttpsAccepted ==
    /\ (Returned("URL") /\ ~IsHttpsUrl(input.a)) => output = ValueError
    /\ (Returned("entity_endpoint") /\ ~IsHttpsUrl(input.a)) => output = 400
    /\ (Returned("entity_endpoint") /\ IsHttpsUrl(input.a) /\ ~input.fetchOk) =>
            output = 500

\* C20: EntityStatement.verify rejects a statement on account of crit
\* exactly when crit is present and empty, or when a name that is both in
\* crit and among the extra claims is not a known extension (stated for
\* payloads that carry extra claims).
C20_CritRejection ==
    (Returned("verify") /\ input.extra # {}) =>
        (output # "ok" <=>
            \/ input.crit.present /\ input.crit.names = {}
            \/ \E n \in input.crit.names \cap input.extra : n \notin input.known)

\* The second invocation has ended and met no response that the first one
\* had not fixed.
SecondDone ==
    /\ prev # <<>>
    /\ status \in {"done", "raised"}
    /\ devs = prev[1].devs

\* C21: an invocation of get_trustchains returns the same chains whatever ran
\* before it in the process, the list `seen` being that of one resolution:
\* after the second of two equal invocations the outcome and `seen` are those
\* of the first.
C21_SeenPerResolution ==
    (SecondDone /\ ~prev[1].permuted) =>
        /\ status = prev[1].status
        /\ result = prev[1].result
        /\ seen = prev[1].seen

\* C22: an invocation of a top-level operation, from a CLI command or from a
\* REST handler, uses one HTTP client session, and that session is closed
\* when the invocation has ended, whether it succeeded or failed.
C22_SessionClosed ==
    (op = "invocation" /\ status = "ended") =>
        (output.created = 1 /\ output.open = 0)

\* The node whose resolve has just returned.
Returning == IF stack = <<>> THEN 1 ELSE Top.child

TerminalNode(n) ==
    \/ nodes[n].entity.sub \in anchors
    \/ anchors = {} /\ nodes[n].entity.hints = <<>>

RECURSIVE Appended(_, _)
\* The nodes reached from those of S over at most k links of authorities.
Appended(S, k) ==
    IF k = 0 THEN S
    ELSE Appended(S \cup UNION {Range(nodes[n].authorities) : n \in S}, k - 1)

\* C23: TrustTree.resolve returns True exactly when its node is terminal or
\* has an authority child appended (a child is appended exactly when its own
\* resolve returned True), so that in the final tree every node without
\* authorities that hangs below the root is terminal.
C23_ValidIffChild ==
    /\ (status = "running" /\ ret # "none") =>
          (ret = "true" <=>
              (TerminalNode(Returning) \/ nodes[Returning].authorities # <<>>))
    /\ Done =>
          \A n \in Appended(Range(nodes[1].authorities), MaxDepth) :
              nodes[n].authorities = <<>> => TerminalNode(n)

\* C24: an authority id that occurs twice in one authority_hints list is
\* resolved once: it yields one child node and no chain is returned twice
\* (stated for federations whose responses are all well-formed).
C24_HintsDeduplicated ==
    (Done /\ AllPlain) =>
        /\ \A i, j \in 1..Len(result) : result[i] = result[j] => i = j
        /\ \A n \in 1..Len(nodes) :
              \A i, j \in 1..Len(nodes[n].authorities) :
                  nodes[nodes[n].authorities[i]].entity.url
                        = nodes[nodes[n].authorities[j]].entity.url => i = j

RECURSIVE DfsPaths(_, _)
RECURSIVE DfsOver(_, _, _)
\* The paths of DfsPaths through the hints j.. of the last entity of p.
DfsOver(p, j, n) ==
    LET hints == cfg[Last(p)].hints
    IN  IF j > Len(hints) THEN <<>>
        ELSE DfsPaths(Append(p, hints[j]), n - 1) \o DfsOver(p, j + 1, n)

\* The authority-hint paths that extend p by at most n hints up to the first
\* terminal, depth first, the hints of every entity in document order.
DfsPaths(p, n) ==
    IF Terminal(Last(p)) THEN <<p>>
    ELSE IF n = 0 THEN <<>>
    ELSE DfsOver(p, 1, n)

DfsHintPaths ==
    IF Terminal(StartingEntity) THEN <<>>
    ELSE DfsPaths(<<StartingEntity>>, NumEntities)

\* C25: the chains returned by get_trustchains come in the depth-first order
\* that the document order of authority_hints induces at every node, the root
\* and the intermediate nodes alike (stated for acyclic federations whose
\* responses are all well-formed); the children of a subtree node come in the
\* order of the entries of the list endpoint.
C25_OrderPreserved ==
    /\ (Done /\ AllPlain /\ Acyclic) =>
          result = [k \in 1..Len(DfsHintPaths) |-> ExpectedChain(DfsHintPaths[k])]
    /\ TreeDone =>
          \A n \in 1..Len(tnodes) :
              \A i, j \in 1..Len(tnodes[n].subordinates) :
                  i < j => tnodes[n].subordinates[i] < tnodes[n].subordinates[j]

\* C26: on every branch the self-signed configuration of an authority is
\* fetched before its fetch endpoint is asked for the statement about the
\* current node (the requests of one iteration follow each other: the
\* configuration, the configuration again to find the endpoint, the
\* statement), and the authority's resolve starts after both.
C26_ParentBeforeChild ==
    /\ \A i \in DOMAIN fetches :
          fetches[i].kind = "stmt" =>
              /\ i >= 3
              /\ fetches[i - 1] = Fetch("recfg", fetches[i].url, NoSub)
              /\ fetches[i - 2] = Fetch("cfg", fetches[i].url, NoSub)
    /\ (status = "running" /\ stack # <<>> /\ Top.step = "enter" /\ Top.node > 1) =>
          /\ Len(fetches) >= 3
          /\ Last(fetches) = Fetch("stmt", nodes[Top.node].entity.url,
                                   nodes[Top.node].subordinate.about)

C26_Witness ==
    /\ status = "running" /\ stack # <<>> /\ Top.step = "enter"
    /\ Len(stack) >= 3
    /\ Cardinality({i \in DOMAIN fetches :
                        fetches[i] = Fetch("cfg", nodes[Top.node].entity.url, NoSub)}) >= 2

FetchEnded == op = "fetch_jws_from_url" /\ status \in {"returned", "raised"}

IsOk(a) == a.kind = "response" /\ a.status = 200

\* C27: fetch_jws_from_url issues at most two GET requests, to the URL
\* without trailing slashes and then to the URL as given; it returns the body
\* of the first response with status 200 and asks no more; it asks the second
\* URL only when the first answered otherwise or raised; when neither answers
\* 200 it raises, with the last status code received if a response was
\* received and with the last exception of the transport otherwise.
C27_TwoAttempts ==
    FetchEnded =>
        LET a1 == input.answers[1]
            a2 == input.answers[2]
            n  == Len(output.requests)
        IN  /\ n \in {1, 2}
            /\ output.requests[1] = Normalized(input.url)
            /\ n = 2 => output.requests[2] = input.url
            /\ n = 2 <=> ~IsOk(a1)
            /\ IsOk(a1) => (status = "returned" /\ output.returned = a1.body)
            /\ (~IsOk(a1) /\ IsOk(a2)) =>
                    (status = "returned" /\ output.returned = a2.body)
            /\ (~IsOk(a1) /\ ~IsOk(a2)) =>
                  /\ status = "raised"
                  /\ output.raised =
                        IF a2.kind = "response"
                        THEN <<"InternalException", "status", <<a2.status>>>>
                        ELSE IF a1.kind = "response"
                        THEN <<"InternalException", "status", <<a1.status>>>>
                        ELSE <<"InternalException", "exception", a2.exc>>

C27_Witness ==
    /\ FetchEnded
    /\ status = "raised"
    /\ input.url.path = <<"/", "wk", "/">>
    /\ input.answers[1].kind = "response"
    /\ input.answers[2].kind = "exception"
    /\ Len(output.requests) = 2

\* The starting entity is itself terminal.
StartTerminal ==
    /\ cfg[StartingEntity].st = "ok"
    /\ \/ cfg[StartingEntity].sub \in anchors
       \/ anchors = {} /\ cfg[StartingEntity].hints = <<>>

\* C28: when the starting entity is itself terminal, get_trustchains fetches
\* its configuration and nothing else and returns no chain; a chain is only
\* returned through an authority child, so every chain returned has at least
\* 3 statements.
C28_TerminalStart ==
    (Done /\ op = "chains") =>
        /\ StartTerminal =>
              /\ result = <<>>
              /\ fetches = <<Fetch("cfg", StartingEntity, NoSub)>>
        /\ \A c \in Chains : Len(c) >= 3

C28_Witness ==
    /\ Done /\ op = "chains"
    /\ StartTerminal
    /\ anchors # {}
    /\ cfg[StartingEntity].hints # <<>>
    /\ result = <<>>

\* The chains of the list r, each as the requests that gave its statements.
ChainIds(r) ==
    {[i \in 1..Len(r[k]) |-> <<r[k][i].url, r[k][i].about>>] : k \in 1..Len(r)}

\* C29: the set of chains returned by get_trustchains does not depend on the
\* order in which an entity lists its authority_hints: after an entity has
\* permuted its list, every endpoint answering as before, an invocation that
\* returns gives the chains the invocation before the permutation gave.
C29_HintOrderIrrelevant ==
    (SecondDone /\ prev[1].permuted /\ status = "done" /\ prev[1].status = "done") =>
        ChainIds(result) = ChainIds(prev[1].result)

\* The entity whose discover is the k-th active call.
Walked(k) == tnodes[tstack[k].node].entity.url

\* C30: FedTree.discover terminates for every finite federation, also when
\* the list endpoints form a cycle of two or more entities.  Every URL
\* answering the same each time, a call of discover nested in a call for the
\* same entity repeats the walk that led to it, without end: the walk
\* terminates exactly when no entity occurs twice among the active calls
\* (stated for federations whose configurations are all well-formed).
C30_SubtreeTerminates ==
    (op = "subtree" /\ tdevs = 0) =>
        \A i, j \in 1..Len(tstack) : Walked(i) = Walked(j) => i = j
====
